---- MODULE Spec2Model ----
(* Model of the bulk activity extraction handler                            *)
(*   POST /strava/activities/extract-all  of src/src/routes/scripting.js  *)
(* One run of the handler is one behaviour: a request arrives, is validated, *)
(* and the paginated fetch loop runs until it breaks, returns or throws.     *)
(*                                                                           *)
(* JS Numbers taken from the request body are modelled in fixed point with   *)
(* one binary fractional digit: the model value x stands for the Number x/2, *)
(* so that 3 stands for 1.5 and 400 for 200.  NaN and Infinity are values   *)
(* of their own.  Times are integer milliseconds.                            *)
EXTENDS Integers, Sequences, FiniteSets, TLC

VARIABLES
  pc,             \* position of the handler: see Positions
  token,          \* result of getBearerToken(req)
  body,           \* req.body: raw JSON values of rpm, per_page, start_page, max_pages, name
  page,           \* let page            (fixed point)
  fetchedPages,   \* let fetchedPages
  lastRequestAt,  \* let lastRequestAt   (0 = no request sent yet)
  now,            \* the wall clock, Date.now()
  wakeAt,         \* the earliest time a pending sleep(ms) resolves
  disk,           \* files under baseDir: file name -> content
  res,            \* the HTTP response sent to the caller, or NoResponse
  reqLog,         \* history: upstream requests sent, with the outcome once handled
  writeLog,       \* history: files this run wrote successfully, in order
  resCount,       \* history: number of responses / next(err) calls made
  late,           \* history: how late the timers fired since the last response was handled
  baseDir,        \* whether the directory baseDir exists
  upstream,       \* the responses the upstream API may give
  runNo,          \* the number of this request among those the server has handled
  prior,          \* history: how the previous run of the handler ended, see NoPrior
  other           \* a second run of the handler in flight at the same time, see NoOther

vars == <<pc, token, body, page, fetchedPages, lastRequestAt, now, wakeAt,
          disk, res, reqLog, writeLog, resCount, late, baseDir, upstream, runNo,
          prior, other>>

\* what a step of one run leaves alone
around == <<upstream, runNo, prior, other>>

Positions == {"idle", "loop", "pacing", "awaiting", "backoff", "meta",
              "completed", "aborted", "rejected"}

----------------------------------------------------------------------------
(* Bounds of the model.                                                      *)

\* upstream requests one run may send before the model stops following it
MaxRequests == 3
\* extra delay, in ms, a timer may add on top of the requested sleep
MaxJitter == 1
\* round-trip time of a fast and of a slow upstream response, in ms
FastLatency == 50
SlowLatency == 12000
\* the clock value when the request arrives (Date.now() is never 0)
StartClock == 1000

----------------------------------------------------------------------------
(* Program constants.                                                        *)

DefaultRpm == 15
DefaultPerPage == 200
DefaultStartPage == 1
DefaultMaxPages == 0
MaxPerPage == 200
MsPerMinute == 60000
DefaultRetryMs == 10000
MsPerSecond == 1000

----------------------------------------------------------------------------
(* JSON values and the conversions the handler applies to them.              *)

Absent == [t |-> "absent"]                 \* undefined or null
NumV(x) == [t |-> "num", v |-> x]          \* a JSON number, fixed point
StrV(s) == [t |-> "str", s |-> s]          \* a JSON string, as a sequence of characters
BoolV(b) == [t |-> "bool", b |-> b]

Fixed(n) == 2 * n                          \* the integer n in fixed point
IsInteger(x) == x % 2 = 0

Digits == <<"0", "1", "2", "3", "4", "5", "6", "7", "8", "9">>
IsDigit(c) == \E d \in 1..10 : Digits[d] = c
DigitValue(c) == (CHOOSE d \in 1..10 : Digits[d] = c) - 1

\* /^\d+$/
IsDigits(s) == Len(s) > 0 /\ \A i \in 1..Len(s) : IsDigit(s[i])

RECURSIVE ParseDigits(_)
ParseDigits(s) ==
  IF s = <<>> THEN 0
  ELSE 10 * ParseDigits(SubSeq(s, 1, Len(s) - 1)) + DigitValue(s[Len(s)])

IsSpace(c) == c = " "

RECURSIVE TrimLeft(_)
TrimLeft(s) == IF s # <<>> /\ IsSpace(Head(s)) THEN TrimLeft(Tail(s)) ELSE s

RECURSIVE TrimRight(_)
TrimRight(s) ==
  IF s # <<>> /\ IsSpace(s[Len(s)]) THEN TrimRight(SubSeq(s, 1, Len(s) - 1)) ELSE s

Trim(s) == TrimRight(TrimLeft(s))

\* v ?? d
Coalesce(v, d) == IF v = Absent THEN d ELSE v

\* JS Numbers: a finite fixed-point value, NaN or Infinity
Fin(x) == [k |-> "fin", v |-> x]
NaN == [k |-> "nan", v |-> 0]
Infinity == [k |-> "inf", v |-> 0]

\* Number(v)
Number(v) ==
  CASE v.t = "num"  -> Fin(v.v)
    [] v.t = "bool" -> IF v.b THEN Fin(Fixed(1)) ELSE Fin(0)
    [] v.t = "str"  ->
         LET s == Trim(v.s) IN
         IF s = <<>> THEN Fin(0)
         ELSE IF IsDigits(s) THEN Fin(Fixed(ParseDigits(s)))
         ELSE IF s = <<"I", "n", "f", "i", "n", "i", "t", "y">> THEN Infinity
         ELSE NaN
    [] OTHER -> NaN

\* Number.isFinite(x)
IsFinite(x) == x.k = "fin"

\* String(v).trim() of a string or absent name
NameOf(v) == IF v.t = "str" THEN Trim(v.s) ELSE <<>>

----------------------------------------------------------------------------
(* getBearerToken(req): the Authorization header if it is a Bearer header,   *)
(* else the configured STRAVA_ACCESS_TOKEN; both trimmed.                    *)

Lower(c) ==
  CASE c = "B" -> "b" [] c = "E" -> "e" [] c = "A" -> "a" [] c = "R" -> "r"
    [] OTHER -> c

\* /^Bearer\s+/i
IsBearer(h) ==
  /\ Len(h) >= 7
  /\ [i \in 1..6 |-> Lower(h[i])] = <<"b", "e", "a", "r", "e", "r">>
  /\ IsSpace(h[7])

getBearerToken(header, env) ==
  IF header # <<>> /\ IsBearer(header)
  THEN Trim(SubSeq(header, 7, Len(header)))
  ELSE Trim(env)

----------------------------------------------------------------------------
(* The handler's constants, computed from the request as the code does.      *)

rpmN == Number(Coalesce(body.rpm, NumV(Fixed(DefaultRpm))))
perPageN == Number(Coalesce(body.per_page, NumV(Fixed(DefaultPerPage))))
startPageN == Number(Coalesce(body.start_page, NumV(Fixed(DefaultStartPage))))
maxPagesN == Number(Coalesce(body.max_pages, NumV(Fixed(DefaultMaxPages))))

rpm == rpmN.v
perPage == perPageN.v
startPage == startPageN.v
maxPages == maxPagesN.v
name == NameOf(Coalesce(body.name, StrV(<<>>)))

RpmOk == IsFinite(rpmN) /\ ~(rpm < Fixed(1))
PerPageOk == IsFinite(perPageN) /\ ~(perPage < Fixed(1)) /\ ~(perPage > Fixed(MaxPerPage))
StartPageOk == IsFinite(startPageN) /\ ~(startPage < Fixed(1))
MaxPagesOk == IsFinite(maxPagesN) /\ ~(maxPages < 0)

\* the field checks alone, without the token check of lines 42-48
ValidationErrorFieldsOnly ==
  CASE ~RpmOk       -> "rpm must be >= 1"
    [] ~PerPageOk   -> "per_page must be 1..200"
    [] ~StartPageOk -> "start_page must be >= 1"
    [] ~MaxPagesOk  -> "max_pages must be >= 0"
    [] OTHER        -> "ok"

\* the first failing check, in the order of the code, or "ok"
ValidationError ==
  CASE token = <<>> -> "Missing Strava token"
    [] ~RpmOk       -> "rpm must be >= 1"
    [] ~PerPageOk   -> "per_page must be 1..200"
    [] ~StartPageOk -> "start_page must be >= 1"
    [] ~MaxPagesOk  -> "max_pages must be >= 0"
    [] OTHER        -> "ok"

\* Math.ceil(60000 / rpm)
CeilDiv(a, b) == (a + b - 1) \div b
minIntervalMs == CeilDiv(2 * MsPerMinute, rpm)

\* Math.max(a, b)
Max(a, b) == IF a >= b THEN a ELSE b

\* a pacer whose test of lastRequestAt is inverted
WaitMsInverted(last, interval, t) == IF last = 0 THEN Max(0, last + interval - t) ELSE 0

\* the pacer: lastRequestAt ? Math.max(0, lastRequestAt + minIntervalMs - now) : 0
WaitMs(last, interval, t) == IF last # 0 THEN Max(0, last + interval - t) ELSE 0

\* a backoff that takes the retry-after seconds for milliseconds
RetryMsUnscaled(retryAfter) ==
  IF retryAfter # <<>> /\ IsDigits(retryAfter)
  THEN ParseDigits(retryAfter)
  ELSE DefaultRetryMs

\* a backoff whose fallback is one second
RetryMsShortFallback(retryAfter) ==
  IF retryAfter # <<>> /\ IsDigits(retryAfter)
  THEN ParseDigits(retryAfter) * MsPerSecond
  ELSE MsPerSecond

\* the backoff: retryAfter && String(retryAfter).match(/^\d+$/) ? Number(retryAfter) * 1000 : 10_000
RetryMs(retryAfter) ==
  IF retryAfter # <<>> /\ IsDigits(retryAfter)
  THEN ParseDigits(retryAfter) * MsPerSecond
  ELSE DefaultRetryMs

\* a loop that ignores max_pages
LimitReachedNever(limit, fetched) == FALSE

\* maxPages && fetchedPages >= maxPages
LimitReached(limit, fetched) == limit # 0 /\ Fixed(fetched) >= limit

----------------------------------------------------------------------------
(* Files.                                                                    *)

\* a file name that also depends on how many requests the server has handled
PageFileStamped(prefix, n) == [prefix |-> prefix, base |-> "page", n |-> n + Fixed(runNo - 1)]

\* name ? `${name}_page_${page}.json` : `page_${page}.json`
PageFile(prefix, n) == [prefix |-> prefix, base |-> "page", n |-> n]
MetaFile == [prefix |-> <<>>, base |-> "meta", n |-> 0]

\* JSON.stringify(value, null, 2)
Stringify(value) == [kind |-> "json", indent |-> 2, value |-> value]
\* what a failed write may leave behind: the file truncated
Truncated == [kind |-> "truncated", indent |-> 0, value |-> <<>>]

\* fs.writeFile(file, content): it resolves, or it rejects having left the
\* file as it was or having truncated it
WriteOutcomes == {"ok", "fail_untouched", "fail_truncated"}

\* a failing write that truncates every file of the directory
WriteFileTruncatingAll(d, file, content, outcome) ==
  CASE outcome = "ok" ->
         [f \in DOMAIN d \cup {file} |-> IF f = file THEN content ELSE d[f]]
    [] outcome = "fail_truncated" ->
         [f \in DOMAIN d \cup {file} |-> Truncated]
    [] OTHER -> d

WriteFile(d, file, content, outcome) ==
  CASE outcome = "ok" ->
         [f \in DOMAIN d \cup {file} |-> IF f = file THEN content ELSE d[f]]
    [] outcome = "fail_truncated" ->
         [f \in DOMAIN d \cup {file} |-> IF f = file THEN Truncated ELSE d[f]]
    [] OTHER -> d

\* a manifest that records the page the loop stopped at as start_page
MetaWithNextPage(t) ==
  [name |-> IF name # <<>> THEN StrV(name) ELSE Absent, per_page |-> perPage, start_page |-> page,
   fetched_pages |-> fetchedPages, generated_at |-> t]

\* the manifest: { name: name || null, per_page, start_page, fetched_pages, generated_at }
Meta(t) ==
  [name |-> IF name # <<>> THEN StrV(name) ELSE Absent, per_page |-> perPage, start_page |-> startPage,
   fetched_pages |-> fetchedPages, generated_at |-> t]

----------------------------------------------------------------------------
(* The environment: request bodies, credentials and upstream responses.      *)

RpmInputs == {Absent, NumV(Fixed(1)), NumV(0), NumV(1), StrV(<<"f", "a", "s", "t">>)}
PerPageInputs == {Absent, NumV(Fixed(MaxPerPage)), NumV(Fixed(MaxPerPage + 1)), NumV(3),
                  NumV(0), BoolV(TRUE)}
StartPageInputs == {Absent, NumV(Fixed(2)), NumV(3), NumV(0), StrV(<<"I", "n", "f", "i", "n", "i", "t", "y">>)}
MaxPagesInputs == {Absent, NumV(Fixed(1)), NumV(Fixed(2)), NumV(3), NumV(0 - Fixed(1))}
NameInputs == {Absent, StrV(<<"t", " ">>)}

NoBody ==
  [rpm |-> Absent, per_page |-> Absent, start_page |-> Absent, max_pages |-> Absent,
   name |-> Absent]

\* request bodies: every default, or one field given, or a slow paced run
\* from page 2 limited to one page
Bodies ==
  {[NoBody EXCEPT !.rpm = v] : v \in RpmInputs}
  \cup {[NoBody EXCEPT !.per_page = v] : v \in PerPageInputs}
  \cup {[NoBody EXCEPT !.start_page = v] : v \in StartPageInputs}
  \cup {[NoBody EXCEPT !.max_pages = v] : v \in MaxPagesInputs}
  \cup {[NoBody EXCEPT !.name = v] : v \in NameInputs}
  \cup {[NoBody EXCEPT !.rpm = NumV(Fixed(1)), !.start_page = NumV(Fixed(2)),
                       !.max_pages = NumV(Fixed(1))]}

\* <<Authorization header, STRAVA_ACCESS_TOKEN>>
Credentials ==
  { << <<"b", "e", "a", "r", "e", "r", " ", " ", "t">>, <<>> >>,
    << <<"B", "a", "s", "i", "c", " ", "x">>, <<" ">> >>,
    << <<>>, <<>> >> }

\* response bodies: a JSON array of records, or anything else
Arr(items) == [array |-> TRUE, items |-> items]
Obj == [array |-> FALSE, items |-> <<>>]
NoHeader == <<>>

Response(status, retryAfter, data) ==
  [status |-> status, retryAfter |-> retryAfter, data |-> data]

Responses ==
  {Response(200, NoHeader, d) : d \in {Arr(<<>>), Arr(<<"activity">>), Obj}}
  \cup {Response(429, h, Obj) : h \in {NoHeader, <<"5">>}}
  \cup {Response(st, NoHeader, Obj) : st \in {401, 500, 199, 204}}
  \cup {Response(st, NoHeader, Arr(<<"activity">>)) : st \in {500, 302}}

Latencies == {FastLatency, SlowLatency}
Jitters == {0, MaxJitter}

----------------------------------------------------------------------------
(* Responses to the caller.                                                  *)

\* an error text, with the upstream status where the text carries one
Err(msg, status) == [msg |-> msg, status |-> status]
Reply(status, error, details) == [status |-> status, error |-> error, details |-> details]
NoResponse == Reply(0, Err("", 0), Obj)
\* next(err): the application's error handler answers 500
InternalError == Reply(500, Err("Internal server error", 0), Obj)

----------------------------------------------------------------------------
(* The decisions of the loop body.                                           *)

\* a dispatch that takes 403 for the authorization failure
IsForbidden(status) == status = 403
\* a dispatch that lets redirects through as successes
IsBelow400(status) == ~(status < 200 \/ status >= 400)
\* a loop that never sees the end of the data
EndOfDataNever(data) == FALSE
\* a loop that advances by two pages
NextPageSkipping(p) == p + Fixed(2)
\* a handler that swallows a rejected write
ResolvesAlways(outcome) == TRUE

\* response.status === 401
IsUnauthorized(status) == status = 401
\* a dispatch without the 429 branch
IsThrottledNever(status) == FALSE

\* response.status === 429
IsThrottled(status) == status = 429
\* a status test that lets 300 through
Is2xxUpTo300(status) == ~(status < 200 \/ status > 300)

\* !(response.status < 200 || response.status >= 300)
Is2xx(status) == ~(status < 200 \/ status >= 300)
\* response.data.length === 0
EndOfData(data) == Len(data.items) = 0
\* page += 1
NextPage(p) == p + Fixed(1)
\* a handler that notices only the writes that damaged the file
ResolvesUnlessTruncated(outcome) == outcome # "fail_truncated"

\* await fs.writeFile(...) resolves; otherwise it throws into catch (err)
Resolves(outcome) == outcome = "ok"

----------------------------------------------------------------------------
(* The state machine.                                                        *)

Pending(n, t, fetched) ==
  [page |-> n, sentAt |-> t, fetched |-> fetched, pacerWait |-> 0, late |-> 0,
   status |-> 0, retryAfter |-> NoHeader, data |-> Obj, handledAt |-> 0]

\* the previous run: how it ended, its request, the pages it persisted, the
\* responses it was given, the files it left and the requests sent before this run
NoPrior ==
  [ended |-> "none", body |-> NoBody, startPage |-> 0, nextPage |-> 0, pages |-> <<>>,
   outcomes |-> <<>>, disk |-> <<>>, res |-> NoResponse, sent |-> 0]

\* the second run: its position, prefix, page, fetched count and the files it wrote
NoOther == [pc |-> "absent", name |-> <<>>, page |-> 0, fetched |-> 0, wrote |-> {}]

\* the state in which a request reaches the handler
Arrival ==
  /\ pc = "idle"
  /\ page = 0
  /\ fetchedPages = 0
  /\ lastRequestAt = 0
  /\ wakeAt = 0
  /\ res = NoResponse
  /\ reqLog = <<>>
  /\ writeLog = <<>>
  /\ resCount = 0
  /\ late = 0

Init ==
  /\ baseDir = FALSE
  /\ upstream = Responses
  /\ runNo = 1
  /\ prior = NoPrior
  /\ other = NoOther
  /\ pc = "idle"
  /\ \E c \in Credentials : token = getBearerToken(c[1], c[2])
  /\ body \in Bodies
  /\ page = 0
  /\ fetchedPages = 0
  /\ lastRequestAt = 0
  /\ now = StartClock
  /\ wakeAt = 0
  /\ disk = <<>>
  /\ res = NoResponse
  /\ reqLog = <<>>
  /\ writeLog = <<>>
  /\ resCount = 0
  /\ late = 0

\* lines 42-76: the token and field checks, mkdir, and the loop's initial state
Validate ==
  /\ pc = "idle"
  /\ IF ValidationError # "ok"
     THEN /\ pc' = "rejected"
          /\ res' = Reply(400, Err(ValidationError, 0), Obj)
          /\ resCount' = resCount + 1
          /\ UNCHANGED <<page, fetchedPages, lastRequestAt, baseDir>>
     ELSE \E mkdirOk \in BOOLEAN :
            IF mkdirOk
            THEN /\ pc' = "loop"
                 /\ page' = startPage
                 /\ fetchedPages' = 0
                 /\ lastRequestAt' = 0
                 /\ baseDir' = TRUE
                 /\ UNCHANGED <<res, resCount>>
            ELSE /\ pc' = "aborted"
                 /\ res' = InternalError
                 /\ resCount' = resCount + 1
                 /\ UNCHANGED <<page, fetchedPages, lastRequestAt, baseDir>>
  /\ UNCHANGED around
  /\ UNCHANGED <<token, body, now, wakeAt, disk, reqLog, writeLog, late>>

\* lines 85-91: lastRequestAt = Date.now(); axios.get(...)
Send(t, waited, lateness) ==
  /\ lastRequestAt' = t
  /\ reqLog' = Append(reqLog, [Pending(page, t, fetchedPages)
                                 EXCEPT !.pacerWait = waited, !.late = lateness])
  /\ pc' = "awaiting"

\* line 79: the page limit ends the loop
LoopBreak ==
  /\ pc = "loop"
  /\ LimitReached(maxPages, fetchedPages)
  /\ pc' = "meta"
  /\ UNCHANGED <<around, baseDir>>
  /\ UNCHANGED <<token, body, page, fetchedPages, lastRequestAt, now, wakeAt,
                 disk, res, reqLog, writeLog, resCount, late>>

\* lines 81-91: the pacer decides; without a wait the request is sent at once
LoopTop ==
  /\ pc = "loop"
  /\ ~LimitReached(maxPages, fetchedPages)
  /\ prior.sent + Len(reqLog) < MaxRequests
  /\ LET waitMs == WaitMs(lastRequestAt, minIntervalMs, now) IN
       IF waitMs # 0
       THEN /\ pc' = "pacing"
            /\ wakeAt' = now + waitMs
            /\ UNCHANGED <<lastRequestAt, reqLog>>
       ELSE /\ Send(now, 0, late)
            /\ UNCHANGED wakeAt
  /\ UNCHANGED <<around, baseDir>>
  /\ UNCHANGED <<token, body, page, fetchedPages, now, disk, res, writeLog, resCount, late>>

\* lines 83-91: sleep(waitMs) resolves, then the request is sent
PacerWake ==
  /\ pc = "pacing"
  /\ \E j \in Jitters :
       /\ now' = wakeAt + j
       /\ late' = late + j
       /\ Send(wakeAt + j, wakeAt - now, late + j)
  /\ UNCHANGED <<around, baseDir>>
  /\ UNCHANGED <<token, body, page, fetchedPages, wakeAt, disk, res, writeLog, resCount>>

Handled(r, t) ==
  [reqLog EXCEPT ![Len(reqLog)] =
     [@ EXCEPT !.status = r.status, !.retryAfter = r.retryAfter, !.data = r.data,
               !.handledAt = t]]

Abort(reply) ==
  /\ pc' = "aborted"
  /\ res' = reply
  /\ resCount' = resCount + 1

\* lines 93-125: the response arrives and is dispatched
Respond ==
  /\ pc = "awaiting"
  /\ \E r \in upstream, lat \in Latencies :
       /\ now' = now + lat
       /\ reqLog' = Handled(r, now + lat)
       /\ late' = 0
       /\ IF IsUnauthorized(r.status)
          THEN /\ Abort(Reply(401, Err("401 Unauthorized (bad STRAVA_ACCESS_TOKEN)", 0), Obj))
               /\ UNCHANGED <<page, fetchedPages, wakeAt, disk, writeLog>>
          ELSE IF IsThrottled(r.status)
          THEN /\ pc' = "backoff"
               /\ wakeAt' = now + lat + RetryMs(r.retryAfter)
               /\ UNCHANGED <<page, fetchedPages, disk, res, writeLog, resCount>>
          ELSE IF ~Is2xx(r.status)
          THEN /\ Abort(Reply(502, Err("Strava API error (HTTP status)", r.status), r.data))
               /\ UNCHANGED <<page, fetchedPages, wakeAt, disk, writeLog>>
          ELSE IF ~r.data.array
          THEN /\ Abort(Reply(502, Err("Unexpected Strava response (expected JSON array)", 0),
                              r.data))
               /\ UNCHANGED <<page, fetchedPages, wakeAt, disk, writeLog>>
          ELSE IF EndOfData(r.data)
          THEN /\ pc' = "meta"
               /\ UNCHANGED <<page, fetchedPages, wakeAt, disk, res, writeLog, resCount>>
          ELSE \E w \in WriteOutcomes :
                 /\ disk' = WriteFile(disk, PageFile(name, page), Stringify(r.data.items), w)
                 /\ writeLog' = IF w = "ok" THEN Append(writeLog, PageFile(name, page))
                                ELSE writeLog
                 /\ IF Resolves(w)
                    THEN /\ page' = NextPage(page)
                         /\ fetchedPages' = fetchedPages + 1
                         /\ pc' = "loop"
                         /\ UNCHANGED <<wakeAt, res, resCount>>
                    ELSE /\ Abort(InternalError)
                         /\ UNCHANGED <<page, fetchedPages, wakeAt>>
  /\ UNCHANGED <<around, baseDir>>
  /\ UNCHANGED <<token, body, lastRequestAt>>

\* lines 100-101: sleep(retryMs) resolves; continue
BackoffWake ==
  /\ pc = "backoff"
  /\ \E j \in Jitters :
       /\ now' = wakeAt + j
       /\ late' = late + j
  /\ pc' = "loop"
  /\ UNCHANGED <<around, baseDir>>
  /\ UNCHANGED <<token, body, page, fetchedPages, lastRequestAt, wakeAt, disk, res,
                 reqLog, writeLog, resCount>>

\* lines 128-141: the manifest is written and the result returned
WriteMeta ==
  /\ pc = "meta"
  /\ \E w \in WriteOutcomes :
       /\ disk' = WriteFile(disk, MetaFile, Stringify(Meta(now)), w)
       /\ writeLog' = IF w = "ok" THEN Append(writeLog, MetaFile) ELSE writeLog
       /\ IF Resolves(w)
          THEN /\ pc' = "completed"
               /\ res' = Reply(200, Err("", 0), Meta(now))
               /\ resCount' = resCount + 1
          ELSE Abort(InternalError)
  /\ UNCHANGED <<around, baseDir>>
  /\ UNCHANGED <<token, body, page, fetchedPages, lastRequestAt, now, wakeAt, reqLog, late>>

Next ==
  \/ Validate
  \/ LoopBreak
  \/ LoopTop
  \/ PacerWake
  \/ Respond
  \/ BackoffWake
  \/ WriteMeta

Spec == Init /\ [][Next]_vars

TypeOK ==
  /\ pc \in Positions
  /\ fetchedPages \in Nat
  /\ now \in Nat
  /\ Len(reqLog) <= MaxRequests

----------------------------------------------------------------------------
(* Vocabulary of the properties.                                             *)

\* the run's state: Idle -> Running -> {Completed, Aborted}
RunState ==
  CASE pc \in {"idle", "rejected"} -> "Idle"
    [] pc = "completed" -> "Completed"
    [] pc = "aborted" -> "Aborted"
    [] OTHER -> "Running"

IsPageFile(f) == f.base = "page"
\* the page files the run has persisted, in the order of their writes
PagesWritten == SelectSeq(writeLog, IsPageFile)
\* the number of manifest writes the run has completed
MetaWrites == Cardinality({i \in 1..Len(writeLog) : ~IsPageFile(writeLog[i])})
\* a manifest is on disk
MetaOnDisk == MetaFile \in DOMAIN disk /\ disk[MetaFile].kind = "json"
\* a page file for page number n is on disk, whole or truncated
PageOnDisk(n) == \E f \in DOMAIN disk : IsPageFile(f) /\ f.n = n

Requests == 1..Len(reqLog)
IsLast(i) == i = Len(reqLog)
Answered(i) == reqLog[i].status # 0

----------------------------------------------------------------------------
\* C1: at every state of a run the page numbers persisted are exactly
\* startPage, startPage + 1, ..., startPage + fetchedPageCount - 1, written in
\* that order under the run's prefix, with no gap and no number written twice.
C1_ContiguousPages ==
  /\ Len(PagesWritten) = fetchedPages
  /\ \A i \in 1..Len(PagesWritten) :
       /\ PagesWritten[i].n = startPage + Fixed(i - 1)
       /\ PagesWritten[i].prefix = name
  /\ \A i, j \in 1..Len(PagesWritten) : i # j => PagesWritten[i] # PagesWritten[j]
  /\ pc \in {"loop", "pacing", "awaiting", "backoff", "meta"} =>
       page = startPage + Fixed(fetchedPages)

\* two pages persisted although one request of the run was throttled
C1_Witness ==
  /\ Len(PagesWritten) = 2
  /\ \E i \in Requests : reqLog[i].status = 429

\* C2: consecutive requests of a run, retries after a throttled response
\* included, are sent at least ceil(60000 / requestsPerMinute) ms apart; the
\* first request is sent without pacer wait; lastRequestAt is the send time of
\* the latest request from the moment it is sent.
C2_Pacing ==
  /\ \A i \in Requests :
       /\ i > 1 => (reqLog[i].sentAt - reqLog[i - 1].sentAt) * rpm >= Fixed(MsPerMinute)
       /\ i = 1 => reqLog[i].pacerWait = 0 /\ reqLog[i].late = 0
  /\ reqLog # <<>> => lastRequestAt = reqLog[Len(reqLog)].sentAt
  /\ pc \in {"loop", "pacing", "awaiting", "backoff", "meta"} =>
       /\ minIntervalMs * rpm >= Fixed(MsPerMinute)
       /\ (minIntervalMs - 1) * rpm < Fixed(MsPerMinute)

\* three requests: the pacer delayed the second one, which followed a fast
\* response, and not the third, which followed a slow response
C2_Witness ==
  /\ Len(reqLog) = 3
  /\ reqLog[2].pacerWait > 0
  /\ reqLog[3].pacerWait = 0
  /\ reqLog[3].sentAt - reqLog[2].sentAt > minIntervalMs

\* C3: the manifest is written exactly once by a run that ends Completed and
\* never by a run that ends Aborted, and no file is written after it.
C3_ManifestOnceAndLast ==
  /\ MetaWrites <= 1
  /\ RunState = "Completed" => MetaWrites = 1 /\ MetaOnDisk
  /\ RunState = "Aborted" => MetaWrites = 0 /\ ~MetaOnDisk
  /\ \A i \in 1..Len(writeLog) : ~IsPageFile(writeLog[i]) => i = Len(writeLog)
  /\ MetaWrites = 1 => RunState = "Completed"

\* a completed run that persisted a page before its manifest
C3_Witness ==
  /\ RunState = "Completed"
  /\ Len(writeLog) = 2
  /\ writeLog[2] = MetaFile

\* C4: a 401 response aborts the run: the caller receives the 401 error, no
\* manifest is written, no request follows it, and nothing is persisted because
\* of it; a 401 on the first request leaves zero pages persisted.
C4_Unauthorized ==
  \A i \in Requests : reqLog[i].status = 401 =>
    /\ IsLast(i)
    /\ RunState = "Aborted"
    /\ res.status = 401
    /\ resCount = 1
    /\ MetaWrites = 0 /\ ~MetaOnDisk
    /\ Len(PagesWritten) = reqLog[i].fetched
    /\ i = 1 => writeLog = <<>> /\ DOMAIN disk = {}

\* the first request of a run was answered 401
C4_Witness ==
  /\ Len(reqLog) = 1
  /\ reqLog[1].status = 401
  /\ RunState = "Aborted"

\* a response that is neither 401 nor 429 and is either outside 200..299 or
\* carries a body that is not an array
IsUpstreamError(e) ==
  /\ e.status \notin {0, 401, 429}
  /\ \/ e.status < 200
     \/ e.status > 299
     \/ ~e.data.array

\* C5: a non-2xx response other than 401/429, or a 2xx response whose body is
\* not an array, aborts the run at once: no request follows, the page asked for
\* is not persisted, no manifest is written, and the caller receives a 502
\* carrying the response body and, for a non-2xx status, that status.
C5_UpstreamError ==
  \A i \in Requests : IsUpstreamError(reqLog[i]) =>
    /\ IsLast(i)
    /\ RunState = "Aborted"
    /\ res.status = 502
    /\ res.details = reqLog[i].data
    /\ (reqLog[i].status < 200 \/ reqLog[i].status > 299) => res.error.status = reqLog[i].status
    /\ resCount = 1
    /\ Len(PagesWritten) = reqLog[i].fetched
    /\ ~PageOnDisk(reqLog[i].page)
    /\ MetaWrites = 0 /\ ~MetaOnDisk

\* the second request was answered 500 with an array body, after a persisted page
C5_Witness ==
  /\ Len(reqLog) = 2
  /\ reqLog[2].status = 500
  /\ reqLog[2].data.array
  /\ Len(PagesWritten) = 1
  /\ RunState = "Aborted"

\* a 429 response with a retry-after header of digits
IsThrottledFor(e) == e.status = 429 /\ IsDigits(e.retryAfter)

\* C6: after a 429 with a numeric retry-after of s seconds for page N, the next
\* request is for page N again and is sent at least s * 1000 ms after the 429
\* was handled; until then the page number and the fetched count are unchanged,
\* nothing is written and the run stays Running, whatever maxPages is.
C6_ThrottledRetry ==
  \A i \in Requests : IsThrottledFor(reqLog[i]) =>
    IF IsLast(i)
    THEN /\ RunState = "Running"
         /\ pc \in {"backoff", "loop", "pacing"}
         /\ page = reqLog[i].page
         /\ fetchedPages = reqLog[i].fetched
         /\ Len(writeLog) = reqLog[i].fetched
         /\ pc # "backoff" => now - reqLog[i].handledAt >=
                                ParseDigits(reqLog[i].retryAfter) * 1000
    ELSE /\ reqLog[i + 1].page = reqLog[i].page
         /\ reqLog[i + 1].fetched = reqLog[i].fetched
         /\ reqLog[i + 1].sentAt - reqLog[i].handledAt >=
              ParseDigits(reqLog[i].retryAfter) * 1000

\* page N was throttled with retry-after 5 and then fetched and persisted by
\* the retry, in a run limited to one page
C6_Witness ==
  /\ Len(reqLog) = 2
  /\ reqLog[1].status = 429 /\ reqLog[1].retryAfter = <<"5">>
  /\ reqLog[2].status = 200
  /\ maxPages = Fixed(1)
  /\ fetchedPages = 1

\* a 429 response without a retry-after header
IsThrottledNoHint(e) == e.status = 429 /\ e.retryAfter = NoHeader

\* C7 as stated: after a 429 without retry-after the retry of the same page is
\* sent exactly 10,000 ms after the 429 was handled, for every valid
\* requestsPerMinute (timers that fire on time).
C7_ExactFallbackWait ==
  \A i \in Requests : (IsThrottledNoHint(reqLog[i]) /\ ~IsLast(i) /\ reqLog[i + 1].late = 0) =>
    /\ reqLog[i + 1].page = reqLog[i].page
    /\ reqLog[i + 1].sentAt - reqLog[i].handledAt = 10000

\* C7 as amended: after a 429 without retry-after the retry of the same page is
\* sent no earlier than 10,000 ms after the 429 was handled and no earlier than
\* minIntervalMs after the throttled request was sent; with timers that fire on
\* time it is sent exactly at the later of the two, which is 10,000 ms after
\* the handling only when the pacer interval has run out by then.
C7_FallbackWaitThenPacer ==
  \A i \in Requests : (IsThrottledNoHint(reqLog[i]) /\ ~IsLast(i)) =>
    LET wait == reqLog[i + 1].sentAt - reqLog[i].handledAt
        paced == reqLog[i].sentAt + minIntervalMs - reqLog[i].handledAt
    IN /\ reqLog[i + 1].page = reqLog[i].page
       /\ reqLog[i + 1].fetched = reqLog[i].fetched
       /\ wait >= 10000
       /\ wait >= paced
       /\ reqLog[i + 1].late = 0 => wait = Max(10000, paced)
       /\ (reqLog[i + 1].late = 0 /\ paced <= 10000) => wait = 10000

\* a retry after a 429 without retry-after that the pacer held back beyond
\* the 10,000 ms fallback
C7_Witness ==
  /\ Len(reqLog) = 2
  /\ IsThrottledNoHint(reqLog[1])
  /\ reqLog[2].late = 0
  /\ reqLog[2].sentAt - reqLog[1].handledAt > 10000

\* a 2xx response whose body is the empty array
IsEmptyPage(e) == e.status >= 200 /\ e.status <= 299 /\ e.data.array /\ e.data.items = <<>>

\* C8 as stated: an empty page after k persisted pages ends the run Completed
\* with a manifest carrying fetchedPageCount = k and no file for the empty page.
C8_EmptyPageCompletes ==
  \A i \in Requests : (IsEmptyPage(reqLog[i]) /\ RunState # "Running") =>
    /\ RunState = "Completed"
    /\ MetaOnDisk
    /\ disk[MetaFile].value.fetched_pages = reqLog[i].fetched
    /\ ~PageOnDisk(reqLog[i].page)

\* C8 as amended: an empty page on page startPage + k after k persisted pages
\* ends the loop: no request follows, no file is written for the empty page,
\* and the manifest write is the only step left; if that write succeeds the
\* run is Completed and the manifest and the result carry fetchedPageCount = k
\* (k = 0 included), and if it fails the run is Aborted without a manifest.
C8_EmptyPageEndsLoop ==
  \A i \in Requests : IsEmptyPage(reqLog[i]) =>
    /\ IsLast(i)
    /\ pc \in {"meta", "completed", "aborted"}
    /\ reqLog[i].page = startPage + Fixed(reqLog[i].fetched)
    /\ fetchedPages = reqLog[i].fetched
    /\ Len(PagesWritten) = reqLog[i].fetched
    /\ ~PageOnDisk(reqLog[i].page)
    /\ RunState = "Completed" =>
         /\ MetaWrites = 1 /\ MetaOnDisk
         /\ disk[MetaFile].value.fetched_pages = reqLog[i].fetched
         /\ res.status = 200
         /\ res.details.fetched_pages = reqLog[i].fetched
    /\ RunState = "Aborted" =>
         /\ MetaWrites = 0 /\ ~MetaOnDisk
         /\ res = InternalError

\* the third page was empty after two persisted pages and the run completed
C8_Witness ==
  /\ Len(reqLog) = 3
  /\ IsEmptyPage(reqLog[3])
  /\ Len(PagesWritten) = 2
  /\ RunState = "Completed"
  /\ disk[MetaFile].value.fetched_pages = 2

\* the request passed validation and the loop was entered
Entered == pc \notin {"idle", "rejected"} /\ (pc = "aborted" => reqLog # <<>>)

\* C9: with maxPages = m > 0 a run never persists more than m pages and sends
\* no request once the fetched count has reached m; with maxPages = 0 the loop
\* is left only on an empty page or a fatal outcome.
C9_PageLimit ==
  Entered =>
    /\ maxPages # 0 =>
         /\ Fixed(Len(PagesWritten)) <= maxPages
         /\ \A i \in Requests : Fixed(reqLog[i].fetched) < maxPages
    /\ (maxPages = 0 /\ pc \in {"meta", "completed"}) =>
         (reqLog # <<>> /\ IsEmptyPage(reqLog[Len(reqLog)]))

\* a value of the request body that is a JSON number or absent
IsNumeric(v) == v.t \in {"absent", "num"}

\* the constraints of an extraction request
RequestValid ==
  /\ IsNumeric(body.rpm) /\ IsFinite(rpmN) /\ rpm > 0
  /\ IsNumeric(body.per_page) /\ IsFinite(perPageN) /\ IsInteger(perPage)
  /\ perPage >= Fixed(1) /\ perPage <= Fixed(200)
  /\ IsNumeric(body.start_page) /\ IsFinite(startPageN) /\ IsInteger(startPage)
  /\ startPage >= Fixed(1)
  /\ IsNumeric(body.max_pages) /\ IsFinite(maxPagesN) /\ IsInteger(maxPages)
  /\ maxPages >= 0

\* C10: a request whose rpm, per_page, start_page or max_pages is non-numeric
\* or out of bounds is answered with a validation error before any request is
\* sent or file written, and the loop is only entered with a request whose
\* fields satisfy the constraints (per_page = 201 rejected, 200 accepted).
C10_Validated ==
  /\ (pc # "idle" /\ ~RequestValid) =>
       /\ pc = "rejected"
       /\ res.status = 400
       /\ reqLog = <<>>
       /\ DOMAIN disk = {}
  /\ (pc # "idle" /\ token # <<>> /\ body.per_page = NumV(Fixed(200))) => pc # "rejected"
  /\ (pc # "idle" /\ body.per_page = NumV(Fixed(201))) => pc = "rejected"

----------------------------------------------------------------------------
\* a request that carries no Bearer header while no default token is configured
NoCredential(header, env) ==
  /\ header = <<>> \/ ~IsBearer(header)
  /\ \A i \in 1..Len(env) : IsSpace(env[i])

\* C15: without a credential (no Bearer header, no configured default token)
\* the request is rejected as a validation failure (400) before the run
\* starts: the state never becomes Running, no upstream request is sent, no
\* directory or file is created, and no manifest is written.
C15_NoCredentialRejected ==
  /\ \A c \in Credentials : NoCredential(c[1], c[2]) => getBearerToken(c[1], c[2]) = <<>>
  /\ token = <<>> =>
       /\ pc \in {"idle", "rejected"}
       /\ RunState = "Idle"
       /\ reqLog = <<>>
       /\ ~baseDir
       /\ disk = <<>>
       /\ writeLog = <<>>
       /\ ~MetaOnDisk
       /\ pc = "rejected" =>
            /\ res = Reply(400, Err("Missing Strava token", 0), Obj)
            /\ resCount = 1

C15_Witness ==
  /\ token = <<>>
  /\ \E c \in Credentials : NoCredential(c[1], c[2])
  /\ pc = "rejected"
  /\ res.status = 400

----------------------------------------------------------------------------
\* request i was answered with a page of records, so its write was attempted
WriteAttempted(i) ==
  /\ Is2xx(reqLog[i].status)
  /\ reqLog[i].data.array
  /\ ~EndOfData(reqLog[i].data)

\* the write attempted for request i resolved
WriteDone(i) ==
  \E k \in 1..Len(writeLog) : writeLog[k] = PageFile(name, reqLog[i].page)

\* C16: a page counts as fetched only after its write has returned: page and
\* fetchedPages never run ahead of the completed writes, a request sent after a
\* page response finds that page written and both counters advanced by one, and
\* a failed write aborts the run with the internal error (500), the counters
\* where they were, no second write, no further request and no manifest.
C16_CountedAfterWrite ==
  /\ fetchedPages <= Len(PagesWritten)
  /\ Entered => page <= startPage + Fixed(Len(PagesWritten))
  /\ \A i \in Requests : Answered(i) /\ WriteAttempted(i) =>
       IF WriteDone(i)
       THEN /\ fetchedPages >= reqLog[i].fetched + 1
            /\ page >= NextPage(reqLog[i].page)
            /\ ~IsLast(i) => /\ reqLog[i + 1].page = NextPage(reqLog[i].page)
                            /\ reqLog[i + 1].fetched = reqLog[i].fetched + 1
       ELSE /\ IsLast(i)
            /\ RunState = "Aborted"
            /\ res = InternalError
            /\ res.status \notin {401, 502}
            /\ resCount = 1
            /\ page = reqLog[i].page
            /\ fetchedPages = reqLog[i].fetched
            /\ Len(PagesWritten) = reqLog[i].fetched
            /\ MetaWrites = 0

\* the write of the second page failed and left a truncated file behind
C16_Witness ==
  /\ Len(reqLog) = 2
  /\ WriteAttempted(1) /\ WriteDone(1)
  /\ WriteAttempted(2) /\ ~WriteDone(2)
  /\ PageFile(name, reqLog[2].page) \in DOMAIN disk
  /\ disk[PageFile(name, reqLog[2].page)] = Truncated
  /\ RunState = "Aborted"
  /\ fetchedPages = 1

----------------------------------------------------------------------------
\* request i was answered 429, with or without a retry-after header
WasThrottled(i) == reqLog[i].status = 429

\* C17: throttling alone never ends a run: after any number of consecutive 429
\* responses for a page the run is still Running on that page with nothing
\* counted and no result sent, the request that follows a 429 is for the same
\* page, and while every response so far was a 429 the run is not terminal.
C17_ThrottlingNeverEnds ==
  /\ \A i \in Requests : WasThrottled(i) =>
       IF IsLast(i)
       THEN /\ RunState = "Running"
            /\ pc \in {"backoff", "loop", "pacing"}
            /\ page = reqLog[i].page
            /\ fetchedPages = reqLog[i].fetched
            /\ resCount = 0
       ELSE /\ reqLog[i + 1].page = reqLog[i].page
            /\ reqLog[i + 1].fetched = reqLog[i].fetched
  /\ (reqLog # <<>> /\ \A i \in Requests : Answered(i) => WasThrottled(i)) =>
       /\ RunState = "Running"
       /\ page = startPage
       /\ writeLog = <<>>
       /\ res = NoResponse

\* three 429 responses in a row for the first page, the run waiting to retry
C17_Witness ==
  /\ Len(reqLog) = MaxRequests
  /\ \A i \in Requests : WasThrottled(i) /\ reqLog[i].page = startPage
  /\ pc = "backoff"

----------------------------------------------------------------------------
\* the page files that are whole on disk
PageFilesOnDisk == {f \in DOMAIN disk : IsPageFile(f) /\ disk[f].kind = "json"}

\* the counters a manifest or a result carries
Carries(m, fetched) ==
  /\ m.fetched_pages = fetched
  /\ m.start_page = startPage
  /\ m.per_page = perPage

\* C19: at every state of a run fetchedPages is the number of page files the
\* run has written and page is startPage + fetchedPages; on Completed the
\* manifest and the result returned to the caller carry that count together with
\* the request's start_page and per_page as validated.
C19_CountersAndManifest ==
  /\ Entered =>
       /\ fetchedPages = Len(PagesWritten)
       /\ fetchedPages = Cardinality(PageFilesOnDisk)
       /\ page = startPage + Fixed(fetchedPages)
  /\ RunState = "Completed" =>
       /\ disk[MetaFile].kind = "json"
       /\ Carries(disk[MetaFile].value, Len(PagesWritten))
       /\ res.status = 200
       /\ Carries(res.details, Len(PagesWritten))
       /\ res.details = disk[MetaFile].value
       /\ body.start_page.t = "num" => res.details.start_page = body.start_page.v
       /\ body.per_page.t = "num" => res.details.per_page = body.per_page.v

\* a run completed after two pages from a start page other than the default
C19_Witness ==
  /\ RunState = "Completed"
  /\ fetchedPages = 2
  /\ startPage # Fixed(DefaultStartPage)
  /\ page = startPage + Fixed(2)

----------------------------------------------------------------------------
(* Runs in sequence: the server handles a second request after the first has  *)
(* been answered. The files under baseDir stay as the first run left them.    *)

MaxRuns == 2

\* what the upstream answered, request by request
Outcomes == [i \in Requests |-> [page |-> reqLog[i].page, status |-> reqLog[i].status,
                                 data |-> reqLog[i].data]]

\* the requests a client may send next: the same again, or the same with
\* start_page set to the page the earlier run stopped at
Resumed(b, p) == [b EXCEPT !.start_page = NumV(p)]
FollowUps == {body} \cup (IF page # 0 THEN {Resumed(body, page)} ELSE {})

\* the handler is invoked again (line 40) after the earlier invocation returned
NewRun ==
  /\ pc \in {"completed", "aborted", "rejected"}
  /\ runNo < MaxRuns
  /\ runNo' = runNo + 1
  /\ prior' = [ended |-> pc, body |-> body,
               startPage |-> IF page # 0 THEN startPage ELSE 0, nextPage |-> page,
               pages |-> PagesWritten, outcomes |-> Outcomes, disk |-> disk,
               res |-> res, sent |-> prior.sent + Len(reqLog)]
  /\ body' \in FollowUps
  /\ pc' = "idle"
  /\ page' = 0
  /\ fetchedPages' = 0
  /\ lastRequestAt' = 0
  /\ wakeAt' = 0
  /\ res' = NoResponse
  /\ reqLog' = <<>>
  /\ writeLog' = <<>>
  /\ resCount' = 0
  /\ late' = 0
  /\ UNCHANGED <<token, now, disk, baseDir, upstream, other>>

\* the requests and the upstream of the runs in sequence
SeqBodies ==
  {NoBody,
   [NoBody EXCEPT !.name = StrV(<<"a">>)],
   [NoBody EXCEPT !.rpm = NumV(Fixed(1)), !.start_page = NumV(Fixed(2)),
                  !.max_pages = NumV(Fixed(1))]}

SeqResponses ==
  {Response(200, NoHeader, d) : d \in {Arr(<<>>), Arr(<<"activity">>), Obj}}
  \cup {Response(st, NoHeader, Obj) : st \in {401, 429, 500}}

InitSeq ==
  /\ baseDir = FALSE
  /\ upstream = SeqResponses
  /\ runNo = 1
  /\ prior = NoPrior
  /\ other = NoOther
  /\ token = <<"t">>
  /\ body \in SeqBodies
  /\ now = StartClock
  /\ disk = <<>>
  /\ Arrival

NextSeq ==
  \/ Validate
  \/ LoopBreak
  \/ LoopTop
  \/ PacerWake
  \/ Respond
  \/ BackoffWake
  \/ WriteMeta
  \/ NewRun

SpecSeq == InitSeq /\ [][NextSeq]_vars

\* C12: whenever a run has terminated and the manifest file is present in its
\* output directory, the run terminated in Completed, also after a sequence of
\* runs that write to the same directory.
C12_ManifestMeansCompleted ==
  (pc \in {"completed", "aborted"} /\ MetaOnDisk) => RunState = "Completed"

----------------------------------------------------------------------------
\* a step into Aborted keeps every page file the run has persisted, name and
\* content, and persists none
AbortKeepsPages ==
  (pc # "aborted" /\ pc' = "aborted") =>
    /\ PagesWritten' = PagesWritten
    /\ \A k \in 1..Len(PagesWritten) :
         /\ PagesWritten[k] \in DOMAIN disk /\ PagesWritten[k] \in DOMAIN disk'
         /\ disk[PagesWritten[k]].kind = "json"
         /\ disk'[PagesWritten[k]] = disk[PagesWritten[k]]
    /\ \A f \in DOMAIN disk : f \in DOMAIN disk'

\* the run was started with start_page = last persisted page + 1 of an aborted run
ResumesAborted ==
  /\ runNo > 1
  /\ prior.ended = "aborted"
  /\ prior.pages # <<>>
  /\ body = Resumed(prior.body, prior.pages[Len(prior.pages)].n + Fixed(1))

\* the pages of the aborted run and of the run resuming it are one contiguous
\* sequence, the earlier ones as the aborted run wrote them
ResumeContinues ==
  ResumesAborted =>
    LET all == prior.pages \o PagesWritten IN
      /\ \A k \in 1..Len(all) :
           /\ all[k] = PageFile(name, prior.startPage + Fixed(k - 1))
           /\ all[k] \in DOMAIN disk
           /\ disk[all[k]].kind = "json"
      /\ \A k \in 1..Len(prior.pages) : disk[prior.pages[k]] = prior.disk[prior.pages[k]]
      /\ Entered => page = prior.startPage + Fixed(Len(all))

\* C13: every transition to Aborted (401, upstream or protocol error, storage
\* failure) leaves the set and contents of the page files persisted earlier in
\* the run unchanged, so a later run started with start_page = last persisted
\* page + 1 continues the same contiguous sequence.
C13_AbortKeepsProgress == [][AbortKeepsPages]_vars /\ []ResumeContinues

\* a run that persisted a page and aborted, resumed by a run that persisted the next
C13_Witness ==
  /\ ResumesAborted
  /\ prior.res.status \in {401, 500, 502}
  /\ Len(prior.pages) = 1
  /\ Len(PagesWritten) = 1
  /\ PagesWritten[1].n = prior.pages[1].n + Fixed(1)

----------------------------------------------------------------------------
\* the run repeats the request of the run before it
SameRequest == runNo > 1 /\ body = prior.body

\* two answers for the same page number are the same answer
Agree(a, b) == a.page = b.page => (a.status = b.status /\ a.data = b.data)

\* so far the upstream has answered by page number alone, in both runs
Deterministic ==
  LET answers == SelectSeq(prior.outcomes \o Outcomes, LAMBDA a : a.status # 0) IN
    \A i, j \in 1..Len(answers) : Agree(answers[i], answers[j])

\* no writeFile or mkdir has failed in either run
StorageHeld == prior.res # InternalError /\ res # InternalError

PageFilesOf(d) == {f \in DOMAIN d : IsPageFile(f)}

----------------------------------------------------------------------------
(* Two runs in flight: a second request, with another name, is handled while  *)
(* the first is. Both invocations share baseDir; each has its own locals. The *)
(* second invocation is followed through its writes only.                     *)

OtherName == <<"u">>

\* the second invocation after its validation and mkdir: defaults, first page
OtherEntered ==
  [pc |-> "running", name |-> OtherName, page |-> Fixed(DefaultStartPage), fetched |-> 0,
   wrote |-> {}]

\* lines 128-134 for the second invocation
OtherMetaRecord(t) ==
  [name |-> StrV(other.name), per_page |-> Fixed(DefaultPerPage),
   start_page |-> Fixed(DefaultStartPage), fetched_pages |-> other.fetched, generated_at |-> t]

\* lines 120-125: the second invocation persists a page and advances
OtherPage ==
  /\ other.pc = "running"
  /\ other.fetched + 1 < MaxRequests
  /\ disk' = WriteFile(disk, PageFile(other.name, other.page), Stringify(<<"activity">>), "ok")
  /\ other' = [other EXCEPT !.page = NextPage(@), !.fetched = @ + 1,
                            !.wrote = @ \cup {PageFile(other.name, other.page)}]
  /\ UNCHANGED <<pc, token, body, page, fetchedPages, lastRequestAt, now, wakeAt, res,
                 reqLog, writeLog, resCount, late, baseDir, upstream, runNo, prior>>

\* lines 128-141: the second invocation writes its manifest and returns
OtherMeta ==
  /\ other.pc = "running"
  /\ disk' = WriteFile(disk, MetaFile, Stringify(OtherMetaRecord(now)), "ok")
  /\ other' = [other EXCEPT !.pc = "completed", !.wrote = @ \cup {MetaFile}]
  /\ UNCHANGED <<pc, token, body, page, fetchedPages, lastRequestAt, now, wakeAt, res,
                 reqLog, writeLog, resCount, late, baseDir, upstream, runNo, prior>>

\* lines 93-116: the second invocation returns an error
OtherAbort ==
  /\ other.pc = "running"
  /\ other' = [other EXCEPT !.pc = "aborted"]
  /\ UNCHANGED <<pc, token, body, page, fetchedPages, lastRequestAt, now, wakeAt, disk, res,
                 reqLog, writeLog, resCount, late, baseDir, upstream, runNo, prior>>

PairBodies ==
  {NoBody, [NoBody EXCEPT !.name = StrV(<<"a">>), !.max_pages = NumV(Fixed(1))]}

InitPair ==
  /\ baseDir = FALSE
  /\ upstream = SeqResponses
  /\ runNo = 1
  /\ prior = NoPrior
  /\ other = OtherEntered
  /\ token = <<"t">>
  /\ body \in PairBodies
  /\ now = StartClock
  /\ disk = <<>>
  /\ Arrival

NextPair ==
  \/ Validate
  \/ LoopBreak
  \/ LoopTop
  \/ PacerWake
  \/ Respond
  \/ BackoffWake
  \/ WriteMeta
  \/ OtherPage
  \/ OtherMeta
  \/ OtherAbort

SpecPair == InitPair /\ [][NextPair]_vars

\* the files this run has written
Wrote == {writeLog[k] : k \in 1..Len(writeLog)}

\* C11: two runs in flight with distinct name prefixes are independent: no file
\* written by one is written or overwritten by the other, and each run's final
\* artifacts (page files and manifest) are those it would have left alone.
C11_Independent ==
  name # other.name =>
    /\ Wrote \cap other.wrote = {}
    /\ RunState = "Completed" =>
         /\ disk[MetaFile] = Stringify(res.details)
         /\ \A f \in Wrote : IsPageFile(f) => disk[f].kind = "json"
    /\ other.pc = "completed" =>
         /\ disk[MetaFile].kind = "json"
         /\ disk[MetaFile].value.name = StrV(other.name)
         /\ disk[MetaFile].value.fetched_pages = other.fetched

----------------------------------------------------------------------------
(* The dispatch of a response, over statuses at the borders of its tests and  *)
(* every body shape with each.                                               *)

DispatchStatuses == {199, 200, 299, 300, 401, 429, 500}
DispatchResponses ==
  {Response(st, NoHeader, d) : st \in DispatchStatuses,
                               d \in {Arr(<<>>), Arr(<<"activity">>), Obj}}

DispatchBodies == {NoBody, [NoBody EXCEPT !.max_pages = NumV(Fixed(1))]}

InitDispatch ==
  /\ baseDir = FALSE
  /\ upstream = DispatchResponses
  /\ runNo = 1
  /\ prior = NoPrior
  /\ other = NoOther
  /\ token = <<"t">>
  /\ body \in DispatchBodies
  /\ now = StartClock
  /\ disk = <<>>
  /\ Arrival

NextDispatch ==
  \/ Validate
  \/ LoopBreak
  \/ LoopTop
  \/ PacerWake
  \/ Respond
  \/ BackoffWake
  \/ WriteMeta

SpecDispatch == InitDispatch /\ [][NextDispatch]_vars

\* the outcomes of a response by status and body shape
Unauthorized(st) == st = 401
Throttled(st) == st = 429
ServerOrProtocolError(st, isArray) ==
  \/ st \notin {401, 429} /\ st \notin 200..299
  \/ st \in 200..299 /\ ~isArray
Success(st, isArray) == st \in 200..299 /\ isArray

OutcomesOf(st, isArray) ==
  (IF Unauthorized(st) THEN {"Unauthorized"} ELSE {})
  \cup (IF Throttled(st) THEN {"Throttled"} ELSE {})
  \cup (IF ServerOrProtocolError(st, isArray) THEN {"ServerOrProtocolError"} ELSE {})
  \cup (IF Success(st, isArray) THEN {"Success"} ELSE {})

\* what the handler did with the response it has just been given
Dispatched ==
  CASE pc' = "aborted" /\ res'.status = 401 -> "Unauthorized"
    [] pc' = "backoff" -> "Throttled"
    [] pc' = "aborted" /\ res'.status = 502 -> "ServerOrProtocolError"
    [] pc' = "meta" \/ pc' = "loop" \/ (pc' = "aborted" /\ res' = InternalError) -> "Success"
    [] OTHER -> "none"

\* a step that handles a response handles it as its one outcome; an empty array
\* ends the loop, and the body decides nothing for 401 and 429
DispatchStep ==
  pc = "awaiting" =>
    LET e == reqLog'[Len(reqLog')] IN
      /\ OutcomesOf(e.status, e.data.array) = {Dispatched}
      /\ (Success(e.status, e.data.array) /\ e.data.items = <<>>) => pc' = "meta"
      /\ (Success(e.status, e.data.array) /\ e.data.items # <<>>) => pc' # "meta"
      /\ Unauthorized(e.status) \/ Throttled(e.status) =>
           UNCHANGED <<disk, writeLog, page, fetchedPages>>

\* C18: a response is classified in this order: 401 -> Unauthorized; 429 ->
\* Throttled; any other status outside 200..299 -> ServerOrProtocolError; 2xx
\* with a non-array body -> ServerOrProtocolError; 2xx with an array ->
\* Success (empty array = end of data). Every (status, body shape) pair has
\* exactly one outcome, and the body is not inspected for 401 or 429.
C18_Dispatch ==
  /\ [](\A r \in upstream : Cardinality(OutcomesOf(r.status, r.data.array)) = 1)
  /\ [][DispatchStep]_vars

\* a 401 and a 429 with array bodies, and a 299 with an array, have been dispatched
C18_Witness ==
  /\ Len(reqLog) = 3
  /\ reqLog[1].status = 429 /\ reqLog[1].data.array
  /\ reqLog[2].status = 299 /\ reqLog[2].data.array /\ WriteDone(2)
  /\ reqLog[3].status = 401 /\ reqLog[3].data.array
  /\ res.status = 401

----------------------------------------------------------------------------
(* Termination. The upstream keeps the claim's premises: it throttles a page  *)
(* only finitely often in a row and, unless the page limit ends the run, it   *)
(* comes to an empty page or a fatal outcome: here, by request MaxRequests at *)
(* the latest. Timers fire, responses arrive and writes return, so a step     *)
(* that can be taken is taken.                                                *)

FairBodies ==
  {NoBody,
   [NoBody EXCEPT !.name = StrV(<<"a">>), !.max_pages = NumV(Fixed(1))],
   [NoBody EXCEPT !.rpm = NumV(Fixed(1)), !.start_page = NumV(Fixed(2)),
                  !.max_pages = NumV(Fixed(1))]}

InitFair ==
  /\ baseDir = FALSE
  /\ upstream = SeqResponses
  /\ runNo = 1
  /\ prior = NoPrior
  /\ other = NoOther
  /\ token = <<"t">>
  /\ body \in FairBodies
  /\ now = StartClock
  /\ disk = <<>>
  /\ Arrival

\* lines 93-125 under an upstream that keeps the premises
RespondSettling ==
  /\ Respond
  /\ Len(reqLog) = MaxRequests =>
       \/ pc' \in {"aborted", "meta"}
       \/ maxPages # 0 /\ Fixed(fetchedPages') >= maxPages

NextFair ==
  \/ Validate
  \/ LoopBreak
  \/ LoopTop
  \/ PacerWake
  \/ RespondSettling
  \/ BackoffWake
  \/ WriteMeta

FairSpec == InitFair /\ [][NextFair]_vars /\ WF_vars(NextFair)

Terminal == pc \in {"completed", "aborted"}

\* C20: for every valid request, if the upstream throttles only finitely often
\* in a row and either max_pages > 0 or the upstream comes to an empty page or
\* a fatal outcome, the run eventually reaches one terminal state (Completed or
\* Aborted) and stays in it, the caller receives exactly one result, and no step
\* is taken after the terminal state.
C20_Terminates ==
  /\ <>[]Terminal
  /\ [](resCount <= 1)
  /\ [](Terminal <=> resCount = 1)
  /\ [](Terminal => res # NoResponse)
  /\ [][~Terminal]_vars

\* a run that was throttled twice for a page under a page limit and completed
C20_Witness ==
  /\ pc = "completed"
  /\ maxPages # 0
  /\ Len(reqLog) = MaxRequests
  /\ reqLog[1].status = 429 /\ reqLog[2].status = 429
  /\ fetchedPages = 1
  /\ resCount = 1

====
